---- MODULE Spec2Model ----
(***************************************************************************)
(* A model of the tiny shell of src/shell.c: the main flow (eval and       *)
(* builtincmd), the three signal handlers, the job list and the child      *)
(* processes the shell forks.                                              *)
(*                                                                         *)
(* The main flow is a program counter `pc` whose locations are lines of    *)
(* shell.c.  A signal handler in progress is a frame on `hstack`; the main *)
(* flow only moves while `hstack` is empty.  Consecutive lines are one     *)
(* step where no handler can run between them and they read nothing        *)
(* another process changes: reading the command line together with the     *)
(* sigprocmask that follows it, and a handler's own sigprocmask calls      *)
(* together with its entry and its return (a handler touches nothing       *)
(* shared outside them, so a second handler running in these windows acts  *)
(* as one running before or after).  The child's lines from setpgid to     *)
(* execve are one step as well: after setpgid they touch only the child.   *)
(*                                                                         *)
(* The job list functions of tsh_helper are not part of the repository's   *)
(* sources; they are modelled from the specification.  The job list is     *)
(* taken to have room for every live child of the model.                   *)
(***************************************************************************)
EXTENDS Integers, Sequences, FiniteSets, TLC

Max(S) == CHOOSE x \in S : \A y \in S : y <= x
Min(S) == CHOOSE x \in S : \A y \in S : x <= y

\* ---------------------------------------------------------------- bounds
\* Children get their process ids from 2..MaxPid; the shell is process 1
\* and leads process group 1.
MaxPid == 3
\* Descriptors are numbered 0..MaxFds-1; open fails when all are in use.
MaxFds == 5
\* Longest argument of bg/fg the model types in.
MaxArgLen == 2
\* Job ids grow as long as the job list is not empty; the model launches a
\* program only while the next job id is at most MaxJid.
MaxJid == 2

Pids == 2..MaxPid
ShellPgid == Min(Pids) - 1

\* --------------------------------------------------------------- signals
\* The three notifications the shell handles, and one representative of
\* every other signal: sigfillset blocks it, the three-signal sets do not.
Sig3 == {"CHLD", "INT", "TSTP"}
AllSigs == Sig3 \cup {"OTHER"}

\* Job states of tsh_helper.h.
FG == "FG"
BG == "BG"
ST == "ST"

\* --------------------------------------------------------------- strings
\* A word is a sequence of one-character strings.
DigitChars == <<"0", "1", "2", "3", "4", "5", "6", "7", "8", "9">>
IsDigit(c) == \E i \in 1..10 : DigitChars[i] = c
DigitVal(c) == (CHOOSE i \in 1..10 : DigitChars[i] = c) - 1
ArgChars == {"%", "x"} \cup {DigitChars[i + 1] : i \in 0..Max({MaxPid, MaxJid})}
ArgWords == UNION {[1..n -> ArgChars] : n \in 1..MaxArgLen}

\* The value of the longest run of digits at the front of s, on top of acc.
RECURSIVE atoi_digits(_, _)
atoi_digits(s, acc) ==
    IF s = <<>> \/ ~IsDigit(Head(s)) THEN acc
    ELSE atoi_digits(Tail(s), 10 * acc + DigitVal(Head(s)))

\* atoi(3): an optional sign, then digits up to the first character that is
\* no digit; 0 when there is no digit at the front.
atoi(s) ==
    IF s = <<>> THEN 0
    ELSE IF Head(s) = "-" THEN 0 - atoi_digits(Tail(s), 0)
    ELSE atoi_digits(s, 0)

\* `num` of builtincmd: the argument without a leading '%'.
StripMarker(arg) == IF arg # <<>> /\ Head(arg) = "%" THEN Tail(arg) ELSE arg

\* -------------------------------------------------------------- variables
VARIABLES
    pc,       \* location of the main flow
    mask,     \* signals blocked in the shell process
    pending,  \* signals sent to the shell and not yet delivered
    hstack,   \* signal handlers in progress, innermost last
    jobs,     \* the job list: job id -> [pid, state, cmdline]
    child,    \* state of the process with each process id
    fds,      \* descriptors open in the shell process
    tok,      \* the parsed command line (struct cmdline_tokens) of eval
    loc,      \* local variables of eval/builtincmd
    out,      \* lines the shell printed in the latest step
    sent,     \* killpg calls the shell made in the latest step
    cimg,     \* what a child that has not called execve yet got from fork
    cev       \* the calls of execve the children made in the latest step

vars == <<pc, mask, pending, hstack, jobs, child, fds, tok, loc, out, sent,
          cimg, cev>>

\* ------------------------------------------------ job list (tsh_helper)

job_exists(jl, jid) == jid \in DOMAIN jl
job_get_pid(jl, jid) == jl[jid].pid
job_get_state(jl, jid) == jl[jid].state
job_get_cmdline(jl, jid) == jl[jid].cmdline

\* The job id of the record of process pid, 0 when there is none.
job_from_pid(jl, pid) ==
    IF \E j \in DOMAIN jl : jl[j].pid = pid
    THEN Min({j \in DOMAIN jl : jl[j].pid = pid})
    ELSE 0

\* The job id of a foreground record, 0 when there is none.
fg_job(jl) ==
    IF \E j \in DOMAIN jl : jl[j].state = FG
    THEN Min({j \in DOMAIN jl : jl[j].state = FG})
    ELSE 0

\* The id add_job gives the next record: above every live id.
next_jid(jl) == IF DOMAIN jl = {} THEN 1 ELSE Max(DOMAIN jl) + 1

add_job(jl, pid, state, cmdline) ==
    [j \in DOMAIN jl \cup {next_jid(jl)} |->
        IF j \in DOMAIN jl THEN jl[j]
        ELSE [pid |-> pid, state |-> state, cmdline |-> cmdline]]

\* No-op when the id is absent.
delete_job(jl, jid) == [j \in DOMAIN jl \ {jid} |-> jl[j]]

job_set_state(jl, jid, state) ==
    IF jid \in DOMAIN jl THEN [jl EXCEPT ![jid].state = state] ELSE jl

\* The records in job-id order.
RECURSIVE list_from(_, _)
list_from(jl, ids) ==
    IF ids = {} THEN <<>>
    ELSE LET j == Min(ids)
         IN <<[jid |-> j, pid |-> jl[j].pid, state |-> jl[j].state,
               cmdline |-> jl[j].cmdline]>> \o list_from(jl, ids \ {j})
list_jobs(jl) == list_from(jl, DOMAIN jl)

\* ------------------------------------------------------ child processes
\* "none"     no process has this id
\* "born"     forked, still in the shell's process group (before setpgid)
\* "run"      leader of its own group, running
\* "stopnew"  stopped, the stop not yet reported by waitpid
\* "stopped"  stopped, the stop reported
\* "zexit"    exited, not yet reaped
\* "zsig"     killed by a signal, not yet reaped
ChildStates == {"none", "born", "run", "stopnew", "stopped", "zexit", "zsig"}

pgid(ch, p) == IF ch[p] = "born" THEN ShellPgid ELSE p
\* The live or zombie processes of process group pg.
Members(ch, pg) == {p \in Pids : ch[p] # "none" /\ pgid(ch, p) = pg}

\* The status waitpid(-1, WNOHANG | WUNTRACED) can report for p, "" if none.
WaitStatus(ch, p) ==
    CASE ch[p] = "zexit" -> "exited"
      [] ch[p] = "zsig" -> "signaled"
      [] ch[p] = "stopnew" -> "stopped"
      [] OTHER -> ""
Waitable(ch) == {p \in Pids : WaitStatus(ch, p) # ""}

\* ------------------------------------------------------------------ Init
Tok0 == [builtin |-> "none", bg |-> FALSE, infile |-> FALSE,
         outfile |-> FALSE, argc |-> 0, arg |-> <<>>, cmdline |-> ""]
Loc0 == [prev_all |-> {}, pid |-> 0, jid |-> 0, fdin |-> 0, fdout |-> 0,
         smask |-> {}]
StdFds == {0, 1, 2}
\* The child's copy of the shell at fork: the blocked signals and the
\* variable prev_all of eval.
Img0 == [mask |-> {}, prev_all |-> {}]
EmptyJobs == [j \in {} |-> 0]

\* The shell at its first prompt, with the descriptors `open` open and the
\* signals `blocked` blocked: main (lines 79-144) opens no file and never
\* calls sigprocmask, so both are what the shell was started with.
InitBlocked(open, blocked) ==
    /\ pc = "prompt"
    /\ mask = blocked
    /\ pending = {}
    /\ hstack = <<>>
    /\ jobs = EmptyJobs
    /\ child = [p \in Pids |-> "none"]
    /\ fds = open
    /\ tok = Tok0
    /\ loc = Loc0
    /\ out = <<>>
    /\ sent = <<>>
    /\ cimg = [p \in Pids |-> Img0]
    /\ cev = <<>>

InitWith(open) == InitBlocked(open, {})
Init == InitWith(StdFds)
\* The shell started with every descriptor it may have already open: each
\* open of a redirection fails, and the set of descriptors never changes.
InitNoFreeFd == InitWith(0..(MaxFds - 1))


\* --------------------------------------------------------------- helpers
\* The main flow runs only while no handler is in progress.
Main == hstack = <<>> /\ pc # "exited"
Quiet == out' = <<>> /\ sent' = <<>> /\ cev' = <<>>
\* The command lines the model types in for a program to launch.
Cmdlines == {"prog"}
ToPrompt == pc' = "prompt" /\ tok' = Tok0 /\ loc' = Loc0

\* The processes after killpg(pg, sig).  SIGCONT resumes every stopped
\* member; SIGINT and SIGTSTP take their default effect on the running
\* members when `eff` holds and are caught or ignored otherwise.  A group
\* without members gets nothing (ESRCH).
killpg(ch, pg, sig, eff) ==
    [p \in Pids |->
        IF p \notin Members(ch, pg) THEN ch[p]
        ELSE CASE sig = "CONT" /\ ch[p] \in {"stopnew", "stopped"} -> "run"
               [] sig = "INT" /\ ch[p] = "run" /\ eff -> "zsig"
               [] sig = "TSTP" /\ ch[p] = "run" /\ eff -> "stopnew"
               [] OTHER -> ch[p]]

\* A child whose state changed sends SIGCHLD to the shell.
Notify(ch1, ch2) == IF ch1 # ch2 THEN pending \cup {"CHLD"} ELSE pending

\* open(2) returns the lowest free descriptor.
FreeFds == (0..(MaxFds - 1)) \ fds
OpenErrors == {"ENOENT", "EACCES"}
FileError(e) == IF e = "ENOENT" THEN "No such file or directory"
                ELSE "Permission denied"

\* A printed line: its kind, the job id and process id it names, its text
\* and, for the listing of jobs, the rows.
Line(kind, jid, pid, text) ==
    [kind |-> kind, jid |-> jid, pid |-> pid, text |-> text, rows |-> <<>>]
\* The announcement line "[jid] (pid) cmdline".
Announce(jid, pid, cmd) == Line("announce", jid, pid, cmd)
\* "name: No such file or directory" or "name: Permission denied".
FileErrorLine(name, e) == Line("file error", 0, 0, name \o ": " \o FileError(e))
\* The output of list_jobs on the descriptor `sink`.
Listing(sink, rows) == [Line("list", 0, 0, sink) EXCEPT !.rows = rows]

\* ------------------------------------------------- eval: command parsing
\* eval lines 207-214 and builtincmd lines 345-347: quit.
builtin_quit ==
    /\ Main /\ pc = "prompt"
    /\ pc' = "exited"
    /\ Quiet
    /\ UNCHANGED <<mask, pending, hstack, jobs, child, cimg, fds, tok, loc>>

\* eval lines 207-214 and builtincmd lines 349-351: jobs, with or without
\* `> file`, up to the sigprocmask.
builtin_jobs ==
    /\ Main /\ pc = "prompt"
    /\ \E o \in BOOLEAN :
         tok' = [Tok0 EXCEPT !.builtin = "jobs", !.outfile = o, !.argc = 1]
    /\ loc' = [loc EXCEPT !.prev_all = mask]
    /\ mask' = mask \cup AllSigs
    /\ pc' = "jobs_list"
    /\ Quiet
    /\ UNCHANGED <<pending, hstack, jobs, child, cimg, fds>>

\* The number builtincmd makes of argv[1] (lines 379-386 and 424-431).
ArgNumber(a) == atoi(StripMarker(a))
\* The arguments line 387 (and 432) rejects, and those it lets through.
ZeroWords == {a \in ArgWords : ArgNumber(a) = 0}
NumberWords == {a \in ArgWords : ArgNumber(a) # 0}

\* eval lines 207-214 with builtincmd lines 373-392 (b = "bg") and 417-437
\* (b = "fg"): the argument checks, up to the sigprocmask.  An argument
\* that passes them is first looked at by the lines that follow, and the
\* model chooses it there.
builtin_args(b) ==
    /\ Main /\ pc = "prompt"
    /\ cev' = <<>>
    /\ \E n \in {1, 2}, zero \in BOOLEAN :
         IF n = 1 THEN
            /\ out' = <<Line("usage", 0, 0,
                            b \o " command requires PID or %jobid argument")>>
            /\ UNCHANGED <<pc, mask, tok, loc>>
         ELSE IF zero THEN
            /\ ZeroWords # {}
            /\ out' = <<Line("bad argument", 0, 0,
                            b \o ": argument must be a PID or %jobid")>>
            /\ UNCHANGED <<pc, mask, tok, loc>>
         ELSE
            /\ NumberWords # {}
            /\ out' = <<>>
            /\ tok' = [Tok0 EXCEPT !.builtin = b, !.argc = 2]
            /\ loc' = [Loc0 EXCEPT !.prev_all = mask]
            /\ mask' = mask \cup AllSigs
            /\ pc' = b \o "_body"
    /\ sent' = <<>>
    /\ UNCHANGED <<pending, hstack, jobs, child, cimg, fds>>

builtin_bg == builtin_args("bg")
builtin_fg == builtin_args("fg")

\* ------------------------------------------------------- eval: launching
\* The mask after eval line 221, sigprocmask(SIG_BLOCK, &mask_one,
\* &prev_all): mask_one holds the three signals (lines 198-201).
eval_launch_mask_none(m) == m
eval_launch_mask(m) == m \cup Sig3

\* eval lines 207-248: a command that is no builtin, the sigprocmask of
\* line 221 and the two opens.  A failed open prints, restores the mask and
\* returns; a failed open of the output file leaves the input file open.
eval_open ==
    /\ Main /\ pc = "prompt"
    /\ cev' = <<>>
    /\ next_jid(jobs) <= MaxJid
    /\ sent' = <<>>
    /\ UNCHANGED <<pending, hstack, jobs, child, cimg>>
    /\ \E b \in BOOLEAN, i \in BOOLEAN, o \in BOOLEAN, c \in Cmdlines :
         LET prev_all == mask
             blocked == eval_launch_mask(mask)
             in_ok == {ok \in BOOLEAN : (~i => ok) /\ (ok /\ i => FreeFds # {})}
         IN \E iok \in in_ok :
            IF ~iok THEN
               \* lines 225-232
               /\ \E e \in OpenErrors : out' = <<FileErrorLine("infile", e)>>
               /\ mask' = prev_all
               /\ ToPrompt
               /\ UNCHANGED fds
            ELSE
               LET fdin == IF i THEN Min(FreeFds) ELSE 0
                   fds1 == IF i THEN fds \cup {fdin} ELSE fds
                   free1 == (0..(MaxFds - 1)) \ fds1
                   out_ok == {ok \in BOOLEAN :
                                (~o => ok) /\ (ok /\ o => free1 # {})}
               IN \E ook \in out_ok :
                  IF ~ook THEN
                     \* lines 239-246
                     /\ \E e \in OpenErrors :
                          out' = <<FileErrorLine("outfile", e)>>
                     /\ mask' = prev_all
                     /\ ToPrompt
                     /\ fds' = fds1
                  ELSE
                     LET fdout == IF o THEN Min(free1) ELSE 0
                     IN /\ out' = <<>>
                        /\ fds' = IF o THEN fds1 \cup {fdout} ELSE fds1
                        /\ tok' = [Tok0 EXCEPT !.bg = b, !.infile = i,
                                               !.outfile = o, !.argc = 1,
                                               !.cmdline = c]
                        /\ loc' = [Loc0 EXCEPT !.prev_all = prev_all,
                                               !.fdin = fdin, !.fdout = fdout]
                        /\ mask' = blocked
                        /\ pc' = "e_fork"

\* eval line 251, in the parent: the child exists and has not run yet.
eval_fork ==
    /\ Main /\ pc = "e_fork"
    /\ \E p \in Pids :
         /\ child[p] = "none"
         /\ child' = [child EXCEPT ![p] = "born"]
         /\ cimg' = [cimg EXCEPT ![p] =
                        [mask |-> mask, prev_all |-> loc.prev_all]]
         /\ loc' = [loc EXCEPT !.pid = p]
    /\ pc' = "e_addblock"
    /\ Quiet
    /\ UNCHANGED <<mask, pending, hstack, jobs, fds, tok>>

\* eval line 276.
eval_add_block ==
    /\ Main /\ pc = "e_addblock"
    /\ mask' = mask \cup AllSigs
    /\ pc' = "e_addjob"
    /\ Quiet
    /\ UNCHANGED <<pending, hstack, jobs, child, cimg, fds, tok, loc>>

\* eval lines 277-284.
eval_add_job ==
    /\ Main /\ pc = "e_addjob"
    /\ jobs' = add_job(jobs, loc.pid, IF tok.bg THEN BG ELSE FG, tok.cmdline)
    /\ loc' = [loc EXCEPT !.jid = next_jid(jobs)]
    /\ pc' = "e_addunblock"
    /\ Quiet
    /\ UNCHANGED <<mask, pending, hstack, child, cimg, fds, tok>>

\* eval lines 288 and 308: the launch waits when parse_result is
\* PARSELINE_FG.
eval_waits_always(t) == TRUE
eval_waits(t) == ~t.bg

\* eval line 285.
eval_add_unblock ==
    /\ Main /\ pc = "e_addunblock"
    /\ mask' = loc.prev_all
    /\ pc' = IF eval_waits(tok) THEN "e_wblock" ELSE "e_bgblock"
    /\ Quiet
    /\ UNCHANGED <<pending, hstack, jobs, child, cimg, fds, tok, loc>>

\* ------------------------------------------------- eval: foreground wait
\* The mask after eval line 291, sigprocmask(SIG_BLOCK, &sigchld, NULL):
\* the set named sigchld holds the three signals (lines 193-196).
eval_wait_mask_none(m) == m
eval_wait_mask(m) == m \cup Sig3

\* eval line 291.
eval_wait_block ==
    /\ Main /\ pc = "e_wblock"
    /\ mask' = eval_wait_mask(mask)
    /\ pc' = "e_wcheck"
    /\ Quiet
    /\ UNCHANGED <<pending, hstack, jobs, child, cimg, fds, tok, loc>>

\* The loop test and body up to sigsuspend, shared by the three wait loops
\* (eval lines 293-298, builtincmd lines 446-451 and 468-472): leave the
\* loop when there is no foreground job or when it is stopped.
\* Lines 294-295, 447-448 and 469-470: the test `state == ST` on the state
\* of the job fg_job() returned.
wait_stopped_any(jl) ==
    fg_job(jl) # 0 /\ \E j \in DOMAIN jl : job_get_state(jl, j) = ST
wait_stopped(jl) == fg_job(jl) # 0 /\ job_get_state(jl, fg_job(jl)) = ST
WaitLeaves_at_once(jl) == TRUE
WaitLeaves(jl) == fg_job(jl) = 0 \/ wait_stopped(jl)

\* eval lines 293-298.
eval_wait_check ==
    /\ Main /\ pc = "e_wcheck"
    /\ cev' = <<>>
    /\ pc' = IF WaitLeaves(jobs) THEN "e_close" ELSE "e_suspend"
    /\ out' = IF wait_stopped(jobs)
              THEN <<Line("job is stopped", 0, 0, "")>> ELSE <<>>
    /\ sent' = <<>>
    /\ UNCHANGED <<mask, pending, hstack, jobs, child, cimg, fds, tok, loc>>

\* eval line 299: sigsuspend(&prev), prev being the empty set.  The mask is
\* replaced and the flow suspended in one step; the mask in force before
\* the call is kept in smask and is back in force when the call returns.
eval_suspend_mask_blocked == Sig3
eval_suspend_mask == {}

eval_sigsuspend ==
    /\ Main /\ pc = "e_suspend"
    /\ loc' = [loc EXCEPT !.smask = mask]
    /\ mask' = eval_suspend_mask
    /\ pc' = "e_suspended"
    /\ Quiet
    /\ UNCHANGED <<pending, hstack, jobs, child, cimg, fds, tok>>

\* eval lines 301-306.
eval_close ==
    /\ Main /\ pc = "e_close"
    /\ fds' = (fds \ (IF tok.infile THEN {loc.fdin} ELSE {}))
                   \ (IF tok.outfile THEN {loc.fdout} ELSE {})
    /\ pc' = "e_restore"
    /\ Quiet
    /\ UNCHANGED <<mask, pending, hstack, jobs, child, cimg, tok, loc>>

\* eval line 307: sigprocmask(SIG_SETMASK, &prev, NULL), and the return.
eval_restore ==
    /\ Main /\ pc = "e_restore"
    /\ mask' = {}
    /\ ToPrompt
    /\ Quiet
    /\ UNCHANGED <<pending, hstack, jobs, child, cimg, fds>>

\* -------------------------------------------- eval: background launch
\* eval line 311.
eval_bg_block ==
    /\ Main /\ pc = "e_bgblock"
    /\ loc' = [loc EXCEPT !.prev_all = mask]
    /\ mask' = mask \cup AllSigs
    /\ pc' = "e_bgprint"
    /\ Quiet
    /\ UNCHANGED <<pending, hstack, jobs, child, cimg, fds, tok>>

\* eval line 312.
eval_bg_print ==
    /\ Main /\ pc = "e_bgprint"
    /\ cev' = <<>>
    /\ out' = <<Announce(loc.jid, loc.pid, tok.cmdline)>>
    /\ sent' = <<>>
    /\ pc' = "e_bgrestore"
    /\ UNCHANGED <<mask, pending, hstack, jobs, child, cimg, fds, tok, loc>>

\* eval lines 313-315.
eval_bg_restore ==
    /\ Main /\ pc = "e_bgrestore"
    /\ mask' = loc.prev_all
    /\ ToPrompt
    /\ Quiet
    /\ UNCHANGED <<pending, hstack, jobs, child, cimg, fds>>

\* ------------------------------------------------------ builtincmd: jobs
\* builtincmd lines 352-369: the listing goes to the opened file, which is
\* closed again, or to standard output.
jobs_list ==
    /\ Main /\ pc = "jobs_list"
    /\ cev' = <<>>
    /\ sent' = <<>>
    /\ UNCHANGED <<pending, hstack, jobs, child, cimg, fds>>
    /\ IF ~tok.outfile THEN
          /\ out' = <<Listing("stdout", list_jobs(jobs))>>
          /\ pc' = "jobs_restore"
          /\ UNCHANGED <<mask, tok, loc>>
       ELSE
          \/ /\ FreeFds # {}
             /\ out' = <<Listing("file", list_jobs(jobs))>>
             /\ pc' = "jobs_restore"
             /\ UNCHANGED <<mask, tok, loc>>
          \/ /\ \E e \in OpenErrors : out' = <<FileErrorLine("outfile", e)>>
             /\ mask' = loc.prev_all
             /\ ToPrompt

\* builtincmd line 370, and the return through lines 373-478.
jobs_restore ==
    /\ Main /\ pc = "jobs_restore"
    /\ mask' = loc.prev_all
    /\ ToPrompt
    /\ Quiet
    /\ UNCHANGED <<pending, hstack, jobs, child, cimg, fds>>

\* -------------------------------------------------------- builtincmd: bg
\* The job id that lines 393-403 (bg) and 438-457 (fg) make of the number
\* n = atoi(num): n itself when a job has that id, else the job of process
\* n, else 0.
ResolveJid(jl, n) == IF job_exists(jl, n) THEN n ELSE job_from_pid(jl, n)
\* The process that is sent SIGCONT: the pid of job n (lines 395, 441), or n
\* itself on the process-id path (lines 402, 456).
ResolvePid(jl, n) == IF job_exists(jl, n) THEN job_get_pid(jl, n) ELSE n

\* builtincmd lines 379-386 for the argument and 393-413.  The message of
\* line 405 is printed without the argument it starts with.
bg_body ==
    /\ Main /\ pc = "bg_body"
    /\ cev' = <<>> /\ cimg' = cimg
    /\ UNCHANGED <<hstack, fds>>
    /\ \E a \in NumberWords :
         /\ ArgNumber(a) # 0
         /\ LET jid == ResolveJid(jobs, ArgNumber(a))
                pid == ResolvePid(jobs, ArgNumber(a))
            IN IF jid = 0 THEN
                  /\ out' = <<Line("No such job", 0, 0, "")>>
                  /\ sent' = <<>>
                  /\ mask' = loc.prev_all
                  /\ ToPrompt
                  /\ UNCHANGED <<jobs, child, pending>>
               ELSE
                  /\ out' = <<Announce(jid, pid, job_get_cmdline(jobs, jid))>>
                  /\ jobs' = job_set_state(jobs, jid, BG)
                  /\ sent' = <<[pg |-> pid, sig |-> "CONT"]>>
                  /\ child' = killpg(child, pid, "CONT", TRUE)
                  /\ pending' = Notify(child, child')
                  /\ loc' = [loc EXCEPT !.jid = jid, !.pid = pid]
                  /\ tok' = [tok EXCEPT !.arg = a]
                  /\ pc' = "bg_restore"
                  /\ UNCHANGED mask

\* builtincmd line 414, and the return.
bg_restore ==
    /\ Main /\ pc = "bg_restore"
    /\ mask' = loc.prev_all
    /\ ToPrompt
    /\ Quiet
    /\ UNCHANGED <<pending, hstack, jobs, child, cimg, fds>>

\* -------------------------------------------------------- builtincmd: fg
\* builtincmd lines 424-431 for the argument, 438-442 (job-id path) and
\* 456-464 (process-id path).
fg_body ==
    /\ Main /\ pc = "fg_body"
    /\ cev' = <<>> /\ cimg' = cimg
    /\ UNCHANGED <<hstack, fds>>
    /\ \E a \in NumberWords :
         /\ ArgNumber(a) # 0
         /\ LET jid == ResolveJid(jobs, ArgNumber(a))
                pid == ResolvePid(jobs, ArgNumber(a))
            IN IF jid = 0 THEN
                  /\ out' = <<Line("No such job", 0, 0, "")>>
                  /\ sent' = <<>>
                  /\ mask' = loc.prev_all
                  /\ ToPrompt
                  /\ UNCHANGED <<jobs, child, pending>>
               ELSE
                  /\ out' = <<>>
                  /\ jobs' = job_set_state(jobs, jid, FG)
                  /\ sent' = <<[pg |-> pid, sig |-> "CONT"]>>
                  /\ child' = killpg(child, pid, "CONT", TRUE)
                  /\ pending' = Notify(child, child')
                  /\ loc' = [loc EXCEPT !.jid = jid, !.pid = pid]
                  /\ tok' = [tok EXCEPT !.arg = a]
                  /\ pc' = "fg_unblock"
                  /\ UNCHANGED mask

\* builtincmd lines 444 and 465.  argv is not read from here on.
fg_unblock ==
    /\ Main /\ pc = "fg_unblock"
    /\ mask' = loc.prev_all
    /\ tok' = [tok EXCEPT !.arg = <<>>]
    /\ pc' = "fg_wblock"
    /\ Quiet
    /\ UNCHANGED <<pending, hstack, jobs, child, cimg, fds, loc>>

\* builtincmd lines 445 and 467.
fg_wait_block ==
    /\ Main /\ pc = "fg_wblock"
    /\ mask' = mask \cup Sig3
    /\ pc' = "fg_wcheck"
    /\ Quiet
    /\ UNCHANGED <<pending, hstack, jobs, child, cimg, fds, tok, loc>>

\* builtincmd lines 446-451 and 468-472.
fg_wait_check ==
    /\ Main /\ pc = "fg_wcheck"
    /\ pc' = IF WaitLeaves(jobs) THEN "fg_restore" ELSE "fg_suspend"
    /\ Quiet
    /\ UNCHANGED <<mask, pending, hstack, jobs, child, cimg, fds, tok, loc>>

\* builtincmd lines 452 and 473: sigsuspend(&prev_all).
fg_sigsuspend ==
    /\ Main /\ pc = "fg_suspend"
    /\ loc' = [loc EXCEPT !.smask = mask]
    /\ mask' = loc.prev_all
    /\ pc' = "fg_suspended"
    /\ Quiet
    /\ UNCHANGED <<pending, hstack, jobs, child, cimg, fds, tok>>

\* builtincmd line 476, and the return.
fg_restore ==
    /\ Main /\ pc = "fg_restore"
    /\ mask' = loc.prev_all
    /\ ToPrompt
    /\ Quiet
    /\ UNCHANGED <<pending, hstack, jobs, child, cimg, fds>>

\* ------------------------------------------------------- signal delivery
Top == hstack[Len(hstack)]
SetTop(f) == [hstack EXCEPT ![Len(hstack)] = f]
Pop == SubSeq(hstack, 1, Len(hstack) - 1)
Frame(sig, saved) ==
    [sig |-> sig, hpc |-> IF sig = "CHLD" THEN "wait" ELSE "fwd",
     saved |-> saved, pid |-> 0, status |-> ""]

Suspended == hstack = <<>> /\ pc \in {"e_suspended", "fg_suspended"}

\* The kernel starts the handler of a pending signal that is not blocked,
\* and the handler blocks the three signals (lines 503, 550, 580).  When it
\* returns, the mask of the interrupted code is back in force.  A handler
\* that interrupts sigsuspend returns to the mask that was in force before
\* sigsuspend, and sigsuspend returns with it.
Deliver(sig) ==
    /\ pc # "exited"
    /\ sig \in pending /\ sig \notin mask
    /\ pending' = pending \ {sig}
    /\ hstack' = Append(hstack, Frame(sig, IF Suspended THEN loc.smask ELSE mask))
    /\ mask' = mask \cup Sig3
    /\ pc' = CASE Suspended /\ pc = "e_suspended" -> "e_wcheck"
               [] Suspended /\ pc = "fg_suspended" -> "fg_wcheck"
               [] OTHER -> pc
    /\ Quiet
    /\ UNCHANGED <<jobs, child, cimg, fds, tok, loc>>

InHandler(sig, at) ==
    /\ pc # "exited" /\ hstack # <<>>
    /\ Top.sig = sig /\ Top.hpc = at

\* Lines 526-529, 557-560 and 587-590: the mask is restored and the
\* handler returns.
handler_return(sig) ==
    /\ InHandler(sig, "ret")
    /\ hstack' = Pop
    /\ mask' = Top.saved
    /\ Quiet
    /\ UNCHANGED <<pc, pending, jobs, child, cimg, fds, tok, loc>>

\* ------------------------------------------------------ sigchld_handler
\* sigchld_handler line 504: waitpid(-1, &status, WNOHANG | WUNTRACED)
\* reaps a terminated child or reports a new stop; the loop ends when no
\* child has a status to report.
sigchld_waitpid ==
    /\ InHandler("CHLD", "wait")
    /\ IF Waitable(child) = {} THEN
          /\ hstack' = SetTop([Top EXCEPT !.hpc = "ret"])
          /\ UNCHANGED <<child, cimg>>
       ELSE
          \E p \in Waitable(child) :
             /\ hstack' = SetTop([Top EXCEPT !.hpc = "body", !.pid = p,
                                     !.status = WaitStatus(child, p)])
             /\ child' = [child EXCEPT ![p] =
                             IF child[p] = "stopnew" THEN "stopped" ELSE "none"]
             /\ cimg' = cimg
    /\ Quiet
    /\ UNCHANGED <<pc, mask, pending, jobs, fds, tok, loc>>

\* sigchld_handler lines 509-519: the notices for a reaped child.
reap_notice_always(jid, pid, status) ==
    <<Line("terminated by signal", jid, pid, "")>>
reap_notice(jid, pid, status) ==
    (IF status = "signaled" /\ jid # 0
     THEN <<Line("terminated by signal", jid, pid, "")>> ELSE <<>>)
    \o (IF status = "stopped"
        THEN <<Line("stopped by signal", jid, pid, "")>> ELSE <<>>)

\* sigchld_handler lines 516-524: the job list after a reaped child.
reap_jobs_delete(jl, jid, status) == delete_job(jl, jid)
reap_jobs_keep(jl, jid, status) ==
    IF status = "stopped" THEN job_set_state(jl, jid, ST) ELSE jl
reap_jobs(jl, jid, status) ==
    IF status = "stopped" THEN job_set_state(jl, jid, ST)
    ELSE delete_job(jl, jid)

\* sigchld_handler line 504: `while`, so after the body waitpid is called
\* again; the handler returns only when waitpid finds nothing.
after_reap_return == "ret"
after_reap == "wait"

\* sigchld_handler lines 506-524.
sigchld_body ==
    /\ InHandler("CHLD", "body")
    /\ cev' = <<>>
    /\ LET pid == Top.pid
           status == Top.status
           jid == job_from_pid(jobs, pid)
       IN /\ out' = reap_notice(jid, pid, status)
          /\ jobs' = reap_jobs(jobs, jid, status)
    /\ hstack' = SetTop([Top EXCEPT !.hpc = after_reap, !.pid = 0,
                                    !.status = ""])
    /\ sent' = <<>>
    /\ UNCHANGED <<pc, mask, pending, child, cimg, fds, tok, loc>>

\* ------------------------------------- sigint_handler, sigtstp_handler
\* Lines 551 and 581: the job the signal is forwarded to.
forward_job_first(jl) == IF DOMAIN jl = {} THEN 0 ELSE Min(DOMAIN jl)
forward_job(jl) == fg_job(jl)

\* Lines 551-556 and 581-586: forward the signal to the foreground job.
Forward(sig) ==
    /\ InHandler(sig, "fwd")
    /\ cev' = <<>> /\ cimg' = cimg
    /\ hstack' = SetTop([Top EXCEPT !.hpc = "ret"])
    /\ LET jid == forward_job(jobs)
       IN IF jid # 0 THEN
             \E eff \in BOOLEAN :
                /\ sent' = <<[pg |-> job_get_pid(jobs, jid), sig |-> sig]>>
                /\ child' = killpg(child, job_get_pid(jobs, jid), sig, eff)
                /\ pending' = Notify(child, child')
          ELSE
             /\ sent' = <<>>
             /\ UNCHANGED <<child, pending>>
    /\ out' = <<>>
    /\ UNCHANGED <<pc, mask, jobs, fds, tok, loc>>

sigint_handler == Forward("INT")
sigtstp_handler == Forward("TSTP")

\* ------------------------------------------------------- the environment
\* The user presses ctrl-c or ctrl-z: the signal is sent to the shell.
Keypress(sig) ==
    /\ pc # "exited"
    /\ sig \in {"INT", "TSTP"} /\ sig \notin pending
    /\ pending' = pending \cup {sig}
    /\ Quiet
    /\ UNCHANGED <<pc, mask, hstack, jobs, child, cimg, fds, tok, loc>>

\* A step of the program a child runs, or of a process outside the shell.
ChildStep(p, from, to) ==
    /\ pc # "exited"
    /\ child[p] \in from
    /\ child' = [child EXCEPT ![p] = to]
    /\ Quiet
    /\ UNCHANGED <<pc, mask, hstack, jobs, fds, tok, loc, cimg>>

\* The child's side of eval, lines 252-260, on the child's copy `img` of
\* the shell: what the call of execve finds.  The lines are one step of the
\* model: after setpgid they touch nothing but the child itself, and the
\* signals the shell forwards are blocked in the child until line 259 and
\* caught by the handlers it inherited until execve.
\* Line 252: setpgid(0, 0) makes the child the leader of its own group.
child_pgid(p) == p
\* Lines 252-258 (setpgid and the dup2 calls) run with the blocked signals
\* the child got from fork.
child_setup_mask(img) == img.mask
\* Line 259: sigprocmask(SIG_SETMASK, &prev_all, NULL).
child_exec_mask_inherited(img) == img.mask
child_exec_mask(img) == img.prev_all

\* The causes of a failed execve the model tells apart, and for each what
\* the open of line 261 can answer: a missing program cannot be opened; a
\* program without execute permission may or may not be readable; a file
\* that is no program (ENOEXEC) was found and is readable.
ExecErrors == {"ENOENT", "EACCES", "ENOEXEC"}
ProbeResults(cause) ==
    CASE cause = "ENOENT" -> {"ENOENT"}
      [] cause = "EACCES" -> {"EACCES", "opened"}
      [] OTHER -> {"opened"}
\* Lines 261-269: the message of the child, none when the open succeeded.
exec_failure_lines(probe) ==
    IF probe = "opened" THEN <<>>
    ELSE <<Line("exec error", 0, 0, "argv0: " \o FileError(probe))>>

\* The record of a call of execve by child p: whether it succeeded, the
\* child's process group and blocked signals at the call, the blocked
\* signals while lines 252-258 ran, and what the child printed after a
\* failure.
ExecEvent(p, img, ok, printed) ==
    [pid |-> p, ok |-> ok, pgid |-> child_pgid(p),
     mask |-> child_exec_mask(img), setup_mask |-> child_setup_mask(img),
     printed |-> printed]

ChildExec(p, to, ok, printed) ==
    /\ pc # "exited"
    /\ child[p] = "born"
    /\ child' = [child EXCEPT ![p] = to]
    /\ cev' = <<ExecEvent(p, cimg[p], ok, printed)>>
    /\ cimg' = [cimg EXCEPT ![p] = Img0]
    /\ out' = <<>> /\ sent' = <<>>
    /\ UNCHANGED <<pc, mask, hstack, jobs, fds, tok, loc>>

\* eval lines 252-260, in the child: setpgid(0, 0), the redirections, the
\* mask, and an execve that succeeds.
child_setpgid(p) ==
    ChildExec(p, "run", TRUE, <<>>) /\ UNCHANGED pending

\* eval lines 252-270, in the child: the same with an execve that fails;
\* the child prints what the open of line 261 tells it to and exits.
child_exec_fails(p) ==
    /\ \E cause \in ExecErrors : \E probe \in ProbeResults(cause) :
          ChildExec(p, "zexit", FALSE, exec_failure_lines(probe))
    /\ pending' = pending \cup {"CHLD"}

\* The program ends.
child_exit(p) ==
    ChildStep(p, {"run"}, "zexit") /\ pending' = pending \cup {"CHLD"}

\* A signal from outside the shell kills the child.
child_killed(p) ==
    ChildStep(p, {"run", "stopnew", "stopped"}, "zsig")
    /\ pending' = pending \cup {"CHLD"}

\* A signal from outside the shell stops the child.
child_stop(p) ==
    ChildStep(p, {"run"}, "stopnew") /\ pending' = pending \cup {"CHLD"}

\* ------------------------------------------------------------------ Next
MainStep ==
    \/ builtin_quit \/ builtin_jobs \/ builtin_bg \/ builtin_fg
    \/ eval_open \/ eval_fork
    \/ eval_add_block \/ eval_add_job \/ eval_add_unblock
    \/ eval_wait_block \/ eval_wait_check \/ eval_sigsuspend
    \/ eval_close \/ eval_restore
    \/ eval_bg_block \/ eval_bg_print \/ eval_bg_restore
    \/ jobs_list \/ jobs_restore
    \/ bg_body \/ bg_restore
    \/ fg_body \/ fg_unblock \/ fg_wait_block \/ fg_wait_check
    \/ fg_sigsuspend \/ fg_restore

HandlerStep ==
    \/ \E sig \in Sig3 : handler_return(sig)
    \/ sigchld_waitpid \/ sigchld_body
    \/ sigint_handler \/ sigtstp_handler

EnvStep ==
    \/ \E sig \in {"INT", "TSTP"} : Keypress(sig)
    \/ \E p \in Pids :
          \/ child_setpgid(p) \/ child_exec_fails(p)
          \/ child_exit(p) \/ child_killed(p) \/ child_stop(p)

Next ==
    \/ MainStep
    \/ \E sig \in Sig3 : Deliver(sig)
    \/ HandlerStep
    \/ EnvStep

Spec == Init /\ [][Next]_vars

\* The shell started by a parent that had a signal blocked: the blocked
\* signals are inherited through fork and execve.  Descriptors play no
\* part in the masks, and the shell starts without a free one, so every
\* open of a redirection takes the failure path.
InheritedMask == {"OTHER"}
InitInherited == InitBlocked(0..(MaxFds - 1), InheritedMask)
InheritedSpec == InitInherited /\ [][Next]_vars

\* The specification of the waits.  Descriptors play no part in waiting, and
\* the shell starts without a free one.
\* Fairness: the shell runs whenever it can (but the user need not type
\* another command) and a handler runs to its end.  Handlers interrupt the
\* main flow but return, which enables it again and again, so its fairness
\* is strong: keypresses never starve it.  The kernel delivers a
\* pending SIGCHLD once it is unblocked: the wait loop unblocks it again
\* and again (every call of sigsuspend), and at each of these points the
\* kernel starts the handlers of all the pending signals, SIGCHLD among
\* them, so the fairness of its delivery is strong.
MainProgress == MainStep /\ pc # "prompt"
FairSpec ==
    /\ InitNoFreeFd /\ [][Next]_vars
    /\ SF_vars(MainProgress)
    /\ SF_vars(Deliver("CHLD"))
    /\ WF_vars(\E sig \in Sig3 : Deliver(sig))
    /\ WF_vars(HandlerStep)

\* ------------------------------------------------------------ properties
FgJobs == {j \in DOMAIN jobs : jobs[j].state = FG}

\* C1: in every reachable state the job list holds at most one record whose
\* state is FG.
C1_AtMostOneForeground == Cardinality(FgJobs) <= 1

\* fg has made one of two live jobs the foreground job and waits for it.
C1_Witness ==
    /\ pc = "fg_suspended"
    /\ Cardinality(DOMAIN jobs) = 2
    /\ Cardinality(FgJobs) = 1

\* C3: the foreground wait hands control back only when no record is FG:
\* after the wait loop of a foreground launch or of fg, and at the prompt,
\* no record is FG; right after the loop the record of the job waited for
\* is either gone, its process reaped, or still in the list in state ST,
\* its process stopped (or killed since and not yet reaped).
AfterWait == pc \in {"e_close", "e_restore", "fg_restore"}
C3_WaitReturnsWhenDone ==
    /\ (AfterWait \/ pc = "prompt") => fg_job(jobs) = 0
    /\ AfterWait =>
         LET j == job_from_pid(jobs, loc.pid)
         IN \/ j = 0 /\ child[loc.pid] = "none"
            \/ j # 0 /\ job_get_state(jobs, j) = ST
                     /\ child[loc.pid] \in {"stopped", "zsig"}

\* The wait loop of a foreground launch has ended because the job stopped.
C3_Witness ==
    /\ pc = "e_close"
    /\ job_from_pid(jobs, loc.pid) # 0
    /\ job_get_state(jobs, job_from_pid(jobs, loc.pid)) = ST
    /\ child[loc.pid] = "stopped"

\* C4: every access of the main flow to the job list (add_job in eval, the
\* reads of the wait loops, list_jobs, and the reads and writes of bg and
\* fg) is made with SIGCHLD, SIGINT and SIGTSTP all blocked.
AccessPcs == {"e_addjob", "e_wcheck", "jobs_list", "bg_body", "fg_body",
              "fg_wcheck"}
C4_AccessesAreGuarded == (Main /\ pc \in AccessPcs) => Sig3 \subseteq mask

\* The wait loop of fg reads the job list while a SIGCHLD is pending.
C4_Witness ==
    /\ Main /\ pc = "fg_wcheck"
    /\ "CHLD" \in pending
    /\ fg_job(jobs) # 0

\* C2: no lost wakeup.  The main flow is never suspended in sigsuspend
\* while no record is FG; and once the foreground job has been registered
\* or set FG and resumed, whenever it is over (terminated, stopped, or its
\* record gone) the main flow leaves the wait loop and comes back to the
\* prompt.
WaitPcs == {"e_addunblock", "e_wblock", "e_wcheck", "e_suspend",
            "e_suspended", "fg_unblock", "fg_wblock", "fg_wcheck",
            "fg_suspend", "fg_suspended"}
FgOver ==
    \/ fg_job(jobs) = 0
    \/ child[job_get_pid(jobs, fg_job(jobs))] \notin {"born", "run"}
InFgWait == pc \in WaitPcs /\ (pc = "e_addunblock" => ~tok.bg)
C2_NoLostWakeup ==
    /\ [](Suspended => fg_job(jobs) # 0)
    /\ ((InFgWait /\ FgOver) ~> (pc = "prompt"))

\* The foreground job has terminated between the test of the wait loop and
\* the call of sigsuspend.
C2_Witness ==
    /\ Main /\ pc = "e_suspend"
    /\ fg_job(jobs) # 0
    /\ child[job_get_pid(jobs, fg_job(jobs))] \in {"zexit", "zsig"}
    /\ "CHLD" \in pending

\* C5: every record of the job list names a process that already leads its
\* own process group (so that killpg reaches it).
C5_RecordedProcessLeadsItsGroup ==
    \A j \in DOMAIN jobs :
       child[jobs[j].pid] # "none" => pgid(child, jobs[j].pid) = jobs[j].pid

\* C6: when an open of a redirection target of a launched command fails, no
\* process is created, the job list is unchanged, an error line is printed,
\* and the blocked signals and the open descriptors of the shell are what
\* they were before the command.
LaunchOpenFails ==
    /\ Main /\ pc = "prompt"
    /\ out' # <<>> /\ out'[1].kind = "file error"
C6_OpenFailureHasNoEffect ==
    [][LaunchOpenFails =>
          /\ child' = child /\ jobs' = jobs
          /\ mask' = mask /\ fds' = fds
          /\ pc' = "prompt"]_vars

\* C7: for a child the SIGCHLD handler reaps, a record exists; if the child
\* stopped the record stays and becomes ST and a stop notice is printed; if
\* it terminated the record is removed, and a termination notice is printed
\* exactly when a signal killed it.  No other record changes.
ReapStep == hstack # <<>> /\ Top.hpc = "body" /\ hstack' # hstack
C7_ReapEffect ==
    [][ReapStep =>
          LET p == Top.pid
              j == job_from_pid(jobs, p)
          IN /\ j # 0
             /\ Top.status = "stopped" =>
                  /\ jobs' = [jobs EXCEPT ![j].state = ST]
                  /\ out' = <<Line("stopped by signal", j, p, "")>>
             /\ Top.status = "signaled" =>
                  /\ jobs' = [k \in DOMAIN jobs \ {j} |-> jobs[k]]
                  /\ out' = <<Line("terminated by signal", j, p, "")>>
             /\ Top.status = "exited" =>
                  /\ jobs' = [k \in DOMAIN jobs \ {j} |-> jobs[k]]
                  /\ out' = <<>>]_vars

\* The handler has reported the stop of one of two jobs.
C7_Witness ==
    /\ out # <<>> /\ out[1].kind = "stopped by signal"
    /\ Cardinality(DOMAIN jobs) = 2
    /\ job_get_state(jobs, out[1].jid) = ST

\* C8: the SIGINT and SIGTSTP handlers send their signal to the process
\* group of the record that is FG when they read the job list and to no
\* other: nothing when no record is FG, never to the shell's own group, never
\* to the group of another record, and no other process is affected.
ForwardStep == hstack # <<>> /\ Top.hpc = "fwd" /\ hstack' # hstack
C8_ForwardOnlyToForeground ==
    [][ForwardStep =>
          IF FgJobs = {} THEN sent' = <<>> /\ child' = child
          ELSE \E j \in FgJobs :
                  /\ sent' = <<[pg |-> jobs[j].pid, sig |-> Top.sig]>>
                  /\ jobs[j].pid # ShellPgid
                  /\ \A k \in DOMAIN jobs \ {j} : jobs[k].pid # jobs[j].pid
                  /\ \A p \in Pids \ {jobs[j].pid} : child'[p] = child[p]]_vars

\* SIGTSTP has been forwarded to the foreground job while a background job
\* is running.
C8_Witness ==
    /\ sent # <<>> /\ sent[1].sig = "TSTP"
    /\ \E j \in DOMAIN jobs :
          /\ jobs[j].state = BG /\ jobs[j].pid # sent[1].pg
          /\ child[jobs[j].pid] = "run"

\* C9: for every live job j with process id p, the references %j and p name
\* the same record to bg and to fg, which then announce it with the same
\* line.
DigitWord(n) == <<DigitChars[n + 1]>>
JidRef(j) == <<"%">> \o DigitWord(j)
PidRef(p) == DigitWord(p)
Target(jl, a) == [jid |-> ResolveJid(jl, ArgNumber(a)),
                  pid |-> ResolvePid(jl, ArgNumber(a))]
TargetLine(jl, a) ==
    Announce(Target(jl, a).jid, Target(jl, a).pid,
             job_get_cmdline(jl, Target(jl, a).jid))
C9_ReferenceRoundTrip ==
    pc \in {"bg_body", "fg_body"} =>
       \A j \in DOMAIN jobs :
          /\ Target(jobs, JidRef(j)) = Target(jobs, PidRef(jobs[j].pid))
          /\ Target(jobs, JidRef(j)).jid = j
          /\ TargetLine(jobs, JidRef(j)) = TargetLine(jobs, PidRef(jobs[j].pid))

\* C10: bg or fg with a missing argument, an argument that is 0 or not a
\* number, or a reference to no job reports an error and does nothing else:
\* the job list is unchanged, no signal is sent, the main flow is back at
\* the prompt and the blocked signals are what they were.
RECURSIVE AllDigits(_)
AllDigits(s) == s = <<>> \/ (IsDigit(Head(s)) /\ AllDigits(Tail(s)))
NonNumeric(a) == StripMarker(a) = <<>> \/ ~AllDigits(StripMarker(a))
ErrorKinds == {"usage", "bad argument", "No such job"}
ErrorReported == out' # <<>> /\ out'[1].kind \in ErrorKinds
BadArgumentTyped ==
    pc \in {"bg_body", "fg_body"} /\ tok'.arg # <<>> /\ NonNumeric(tok'.arg)
C10_BadArgumentHasNoEffect ==
    [][(Main /\ pc \in {"prompt", "bg_body", "fg_body"}
             /\ (ErrorReported \/ BadArgumentTyped)) =>
          /\ ErrorReported
          /\ jobs' = jobs /\ child' = child /\ sent' = <<>>
          /\ pc' = "prompt"
          /\ mask' = IF pc = "prompt" THEN mask ELSE loc.prev_all]_vars

ExecMessages == {"argv0: " \o FileError(e) : e \in OpenErrors}
C12_ExecFailureIsReported ==
    \A i \in DOMAIN cev :
       ~cev[i].ok =>
          /\ cev[i].printed # <<>>
          /\ cev[i].printed[1].text \in ExecMessages

\* C13: background work never blocks the main flow.  The main flow is in a
\* wait loop, and so suspended, only in a foreground launch or in fg; a
\* background launch and a bg that found its job come back to the prompt
\* whatever the children do.
EvalWaitPcs == {"e_wblock", "e_wcheck", "e_suspend", "e_suspended"}
FgWaitPcs == {"fg_wblock", "fg_wcheck", "fg_suspend", "fg_suspended"}
BgLaunchPcs == {"e_fork", "e_addblock", "e_addjob", "e_addunblock",
                "e_bgblock", "e_bgprint", "e_bgrestore"}
InBackgroundWork ==
    \/ pc \in BgLaunchPcs /\ tok.bg
    \/ pc \in {"bg_body", "bg_restore"}
C13_BackgroundNeverBlocks ==
    /\ [](pc \in EvalWaitPcs => ~tok.bg)
    /\ [](pc \in FgWaitPcs => tok.builtin = "fg")
    /\ [](Suspended => pc \in EvalWaitPcs \cup FgWaitPcs)
    /\ (InBackgroundWork ~> (pc = "prompt"))

\* A background launch is about to print its announcement while its child
\* runs.
C13_Witness ==
    /\ Main /\ pc = "e_bgprint" /\ tok.bg
    /\ child[loc.pid] = "run"
    /\ fg_job(jobs) = 0


\* C14: eval and builtincmd return with the set of blocked signals they
\* were entered with, on every exit path and whatever that set is.  The
\* handlers return with the mask of the code they interrupted, so the
\* claim says the mask at every prompt is the one the shell started with:
\* the first return that differs from its entry breaks it.
C14_MaskRestoredOnReturn == (Main /\ pc = "prompt") => mask = InheritedMask


\* C15: a record leaves the job list only in the SIGCHLD handler's step for
\* a child that waitpid reported as exited or killed, and it is the record
\* of that child: no step of the main flow or of the other two handlers
\* removes or replaces a record, and no record is removed while its process
\* is running or stopped.
Alive == {"born", "run", "stopnew", "stopped"}
Removed(j) == j \notin DOMAIN jobs' \/ jobs'[j].pid # jobs[j].pid
C15_OnlyReapRemoves ==
    [][\A j \in DOMAIN jobs :
          Removed(j) =>
             /\ ReapStep /\ Top.sig = "CHLD"
             /\ Top.status \in {"exited", "signaled"}
             /\ Top.pid = jobs[j].pid
             /\ child[jobs[j].pid] \notin Alive]_vars

\* The record of the job eval launched and waits for is gone, its process
\* reaped, while the record of a stopped job is still in the list.
C15_Witness ==
    /\ pc \in EvalWaitPcs /\ loc.jid # 0 /\ loc.jid \notin DOMAIN jobs
    /\ child[loc.pid] = "none"
    /\ \E j \in DOMAIN jobs :
          jobs[j].state = ST /\ child[jobs[j].pid] = "stopped"


\* C16: one run of the SIGCHLD handler reports every child that has a
\* status to report, however many there are for one delivery.  So a child
\* with an unreported status always has a run of the handler before it: a
\* pending SIGCHLD or a handler still in its loop.  When neither is there,
\* every record is of a process that is alive, and of a stopped one only
\* after its stop was reported.  Unless the shell quits, a terminated child
\* does not stay unreaped: a moment comes when every child that had
\* terminated has been reaped.
Zombies == {"zexit", "zsig"}
Draining ==
    \E i \in DOMAIN hstack :
       hstack[i].sig = "CHLD" /\ hstack[i].hpc \in {"wait", "body"}
ReapAhead == "CHLD" \in pending \/ Draining
C16_NothingLeftUnreaped == Waitable(child) # {} => ReapAhead
C16_RecordsAreCurrent ==
    ~ReapAhead =>
       \A j \in DOMAIN jobs : child[jobs[j].pid] \in {"born", "run", "stopped"}
C16_HandlerDrains ==
    /\ []C16_NothingLeftUnreaped
    /\ []C16_RecordsAreCurrent
    /\ (\E p \in Pids : child[p] \in Zombies)
          ~> ((\A p \in Pids : child[p] \notin Zombies) \/ pc = "exited")


\* Two children have a status to report and the one SIGCHLD there was for
\* them has been delivered: the handler is in its loop, none is pending.
C16_Witness ==
    /\ hstack # <<>> /\ Top.sig = "CHLD" /\ Top.hpc = "wait"
    /\ "CHLD" \notin pending
    /\ Cardinality(Waitable(child)) = 2


\* C17: every call of execve in a child is made with the blocked signals
\* the shell had before line 221 (in Spec it is entered with none blocked,
\* so none is blocked, the three of line 221 included), by a child that is
\* the leader of its own process group, and what comes before the restore
\* of line 259 (setpgid, the dup2 of the redirections) ran with the three
\* signals still blocked.
C17_ExecWithEntryMask ==
    \A i \in DOMAIN cev :
       /\ cev[i].mask = {}
       /\ cev[i].pgid = cev[i].pid /\ cev[i].pgid # ShellPgid
       /\ Sig3 \subseteq cev[i].setup_mask

\* A child has just replaced its program, with redirections, while the
\* shell itself still has the signals blocked.
C17_Witness ==
    /\ cev # <<>> /\ cev[1].ok
    /\ Sig3 \subseteq mask
    /\ tok.infile /\ tok.outfile /\ loc.pid = cev[1].pid


\* C18: the process the SIGCHLD handler has in hand has a record: between
\* waitpid and the lines that use the job id, job_from_pid is not 0.  So
\* the handler passes no job id 0 to job_set_state or delete_job and prints
\* no notice for job 0.  The reason: a process without a record is the one
\* eval has just forked, and eval has SIGCHLD blocked until add_job is done.
Unregistered == {p \in Pids : child[p] # "none" /\ job_from_pid(jobs, p) = 0}
C18_ReapedHasRecord ==
    /\ InHandler("CHLD", "body") => job_from_pid(jobs, Top.pid) # 0
    /\ \A i \in DOMAIN out : out[i].kind \in {"terminated by signal",
                                              "stopped by signal"}
                                => out[i].jid # 0
    /\ \A p \in Unregistered :
          /\ hstack = <<>> /\ pc \in {"e_addblock", "e_addjob"}
          /\ loc.pid = p /\ "CHLD" \in mask

\* The handler runs right after the unblock of line 285 and has in hand the
\* child eval has just launched and registered.
C18_Witness ==
    /\ InHandler("CHLD", "body") /\ Top.status = "exited"
    /\ pc \in {"e_wblock", "e_bgblock"} /\ Top.pid = loc.pid


\* C19: the line "[jid] (pid) cmdline" of a background launch comes before
\* every notice of the SIGCHLD handler about that job: while eval is between
\* the unblock of line 285 and its print of line 312, no "terminated by
\* signal" or "stopped by signal" line names the process it launched.
Notices == {"terminated by signal", "stopped by signal"}
BeforeAnnouncement == pc \in {"e_bgblock", "e_bgprint"} /\ tok.bg
C19_AnnouncedBeforeNotice ==
    BeforeAnnouncement =>
       \A i \in DOMAIN out : out[i].kind \in Notices => out[i].pid # loc.pid


\* C20: when eval returns to the prompt from a launch, foreground or
\* background, the descriptors it opened for the redirections of the command
\* are closed in the shell.
LaunchReturns == pc \in {"e_restore", "e_bgrestore"} /\ pc' = "prompt"
C20_RedirectionsClosedOnReturn ==
    [][LaunchReturns =>
          /\ tok.infile => loc.fdin \notin fds'
          /\ tok.outfile => loc.fdout \notin fds']_vars


\* C21: in the three wait loops the test `state == ST` never succeeds: the
\* job fg_job() returns is in state FG, so the loops are left only when
\* fg_job() returns 0, and "job is stopped" is never printed.
AtWaitTest == Main /\ pc \in {"e_wcheck", "fg_wcheck"}
====
